---- MODULE Spec2Model ----
(***************************************************************************)
(* Model of dags/scripts/s3_to_mongo_download.py: the daily batch that     *)
(* reads line-delimited JSON sources, normalizes the records (clean_data), *)
(* partitions them by deployment environment (separate_environments) and   *)
(* loads every partition into its MongoDB collection (upload_to_mongo).    *)
(*                                                                         *)
(* Text.  A Python string is a sequence of pieces.  A piece is one single  *)
(* character of a class the code distinguishes (an uppercase letter, "$",  *)
(* ".") or a run of characters that every operation of the code treats     *)
(* alike and leaves alone (lowercase letters, digits, "_", "-").  StrOf    *)
(* concatenates the pieces, so two spellings of one string compare equal.  *)
(*                                                                         *)
(* Values.  A JSON scalar is [t, s]: t its type ("str", "num", "null", or  *)
(* "nan" for a cell pandas filled in) and s the pieces of its text.  A raw *)
(* record (a Python dict) is a sequence of entries in insertion order; an  *)
(* entry holds either a scalar or a nested dict.                           *)
(***************************************************************************)
EXTENDS Integers, Sequences, FiniteSets, TLC

VARIABLES
    pc,               \* position of the run inside download_to_mongo
    nobjs,            \* len(json_files['Contents'])
    dfs,              \* the list dfs: one frame (sequence of raw records) per source read
    data_dict,        \* the merged batch handed to process_and_upload_data
    cleaned_data_df,  \* the frame returned by clean_data
    envs,             \* the three frames returned by separate_environments
    store,            \* the document store: collections, unique indexes, ObjectId counter
    calls,            \* history: one record per upload_to_mongo call
    errors,           \* history: the logging.error calls, in order
    result,           \* statusCode returned by download_to_mongo (0: not returned yet)
    fault,            \* the exception that ended the try block of download_to_mongo
    target,           \* the bucket a stand-alone loader run writes to
    store0,           \* history: the store when the run started
    after1            \* history: the target collection after the loader's first call

vars == <<pc, nobjs, dfs, data_dict, cleaned_data_df, envs, store, calls, errors,
          result, fault, target, store0, after1>>

(***************************************************************************)
(* Bounds of the model.                                                    *)
(***************************************************************************)
MaxKeyLen == 3     \* pieces in the key path of a generated raw record
MaxSources == 2    \* objects listed under the day's prefix
MaxBatch == 3      \* records of a frame handed to a stand-alone loader run
MaxRuns == 2       \* stand-alone loader calls on the same frame

(***************************************************************************)
(* Strings.                                                                *)
(***************************************************************************)
RECURSIVE StrOf(_)
StrOf(s) == IF s = <<>> THEN "" ELSE Head(s) \o StrOf(Tail(s))

\* str.lower() on the uppercase letters the model's keys are written with.
UpperToLower == ("A" :> "a") @@ ("I" :> "i")

IsUpper(p) == p \in DOMAIN UpperToLower

lower(name) ==
    [i \in 1..Len(name) |-> IF IsUpper(name[i]) THEN UpperToLower[name[i]] ELSE name[i]]

(***************************************************************************)
(* Scalars and raw records.                                                *)
(***************************************************************************)
StrV(pieces) == [t |-> "str", s |-> pieces]
NumV(text)   == [t |-> "num", s |-> <<text>>]
None         == [t |-> "null", s |-> <<>>]
NaN          == [t |-> "nan", s |-> <<>>]

Leaf(key, val)  == [k |-> key, isMap |-> FALSE, v |-> val, sub |-> <<>>]
Dict(key, ents) == [k |-> key, isMap |-> TRUE, v |-> None, sub |-> ents]

(***************************************************************************)
(* pd.json_normalize(list(data_dict), sep='_').                            *)
(***************************************************************************)
RECURSIVE nested_to_record(_, _)
nested_to_record(d, prefix) ==
    IF d = <<>> THEN <<>>
    ELSE LET e   == Head(d)
             key == prefix \o e.k
         IN  (IF e.isMap
                 THEN nested_to_record(e.sub, key \o <<"_">>)
                 ELSE <<[k |-> key, v |-> e.v]>>)
             \o nested_to_record(Tail(d), prefix)

\* two spellings of one Python string
SameName(a, b) == StrOf(a) = StrOf(b)

HasKey(flat, name) == \E j \in 1..Len(flat) : SameName(flat[j].k, name)

\* dict lookup: the last entry written under the key; NaN when the key is absent
Lookup(flat, name) ==
    IF HasKey(flat, name)
       THEN LET j == CHOOSE m \in 1..Len(flat) :
                        /\ SameName(flat[m].k, name)
                        /\ \A n \in 1..Len(flat) : SameName(flat[n].k, name) => n <= m
            IN  flat[j].v
       ELSE NaN

RECURSIVE AddKeys(_, _)
AddKeys(cols, flat) ==
    IF flat = <<>> THEN cols
    ELSE AddKeys(IF \E j \in 1..Len(cols) : SameName(cols[j], Head(flat).k)
                    THEN cols ELSE Append(cols, Head(flat).k),
                 Tail(flat))

RECURSIVE AllKeys(_, _)
AllKeys(cols, flats) ==
    IF flats = <<>> THEN cols ELSE AllKeys(AddKeys(cols, Head(flats)), Tail(flats))

\* A frame: the column labels, and one row per record with its index label.
json_normalize(data) ==
    LET flats == [i \in 1..Len(data) |-> nested_to_record(data[i], <<>>)]
        cols  == AllKeys(<<>>, flats)
    IN  [columns |-> cols,
         rows    |-> [i \in 1..Len(data) |->
                        [ix   |-> i - 1,
                         vals |-> [j \in 1..Len(cols) |-> Lookup(flats[i], cols[j])]]]]

(***************************************************************************)
(* clean_data.                                                             *)
(***************************************************************************)
\* x.strip('$'): every leading and every trailing '$' goes
RECURSIVE lstrip(_)
lstrip(name) ==
    IF name # <<>> /\ Head(name) = "$" THEN lstrip(Tail(name)) ELSE name

RECURSIVE rstrip(_)
rstrip(name) ==
    IF name # <<>> /\ name[Len(name)] = "$"
       THEN rstrip(SubSeq(name, 1, Len(name) - 1)) ELSE name

strip(name) == rstrip(lstrip(name))

cols_to_drop ==
    {"app", "amplitude_event_type", "device_type", "device_carrier", "device_brand",
     "device_family", "device_manufacturer", "location_lat", "location_lng", "dma",
     "idfa", "adid", "library", "platform", "paying", "groups", "group_properties",
     "start_version", "version_name", "sample_rate", "is_attribution_event",
     "amplitude_attribution_ids", "event_properties_organizationId",
     "user_properties_organizationId"}

\* df.rename(columns=lambda x: x.strip('$'))
rename_strip(df) ==
    [df EXCEPT !.columns = [j \in 1..Len(df.columns) |-> strip(df.columns[j])]]

\* the positions, in order, of the columns whose label is not in labels
RECURSIVE KeptColumns(_, _, _)
KeptColumns(columns, labels, from) ==
    IF from > Len(columns) THEN <<>>
    ELSE (IF StrOf(columns[from]) \notin labels THEN <<from>> ELSE <<>>)
         \o KeptColumns(columns, labels, from + 1)

\* df.drop(columns=labels, errors='ignore'): every column carrying a listed label
drop(df, labels) ==
    LET kept == KeptColumns(df.columns, labels, 1)
    IN  [columns |-> [j \in 1..Len(kept) |-> df.columns[kept[j]]],
         rows    |-> [i \in 1..Len(df.rows) |->
                        [ix   |-> df.rows[i].ix,
                         vals |-> [j \in 1..Len(kept) |-> df.rows[i].vals[kept[j]]]]]]

\* re.compile(r'(?<!^)(?=[A-Z])').sub('_', name): "_" before every uppercase
\* letter that is not the first character of the name
RECURSIVE pattern_sub(_, _)
pattern_sub(name, at) ==
    IF at > Len(name) THEN <<>>
    ELSE (IF at > 1 /\ IsUpper(name[at]) THEN <<"_", name[at]>> ELSE <<name[at]>>)
         \o pattern_sub(name, at + 1)

\* re.sub(r'\.', '_', name)
sub_period(name) == [i \in 1..Len(name) |-> IF name[i] = "." THEN "_" ELSE name[i]]

\* snake_case without the call of lower()
snake_case_no_lower(name) == sub_period(pattern_sub(name, 1))

snake_case(name) == sub_period(lower(pattern_sub(name, 1)))

clean_column_names(df) ==
    [df EXCEPT !.columns = [j \in 1..Len(df.columns) |-> snake_case(df.columns[j])]]

clean_data(data) ==
    LET data_df == rename_strip(json_normalize(data))
    IN  clean_column_names(drop(data_df, cols_to_drop))

(***************************************************************************)
(* separate_environments.  A URL is a sequence of pieces: an optional      *)
(* scheme ("https:"), the authority marker "//", the pieces of the         *)
(* authority, and whatever follows the first "/", "?" or "#".              *)
(***************************************************************************)
STAGING_DOMAINS    == {"master.mwstream.com", "studio.mwstream.com"}
BETA_DOMAINS       == {"beta-studio.mwstream.com", "beta-library.mwstream.com"}
PRODUCTION_DOMAINS == {"studio.masterwizr.com", "stream.masterwizr.com"}

Schemes == {"https:", "http:"}

RECURSIVE UpToDelimiter(_)
UpToDelimiter(u) ==
    IF u = <<>> \/ Head(u) \in {"/", "?", "#"} THEN <<>>
    ELSE <<Head(u)>> \o UpToDelimiter(Tail(u))

\* urlparse(url).netloc
netloc(url) ==
    LET rest == IF url # <<>> /\ Head(url) \in Schemes THEN Tail(url) ELSE url
    IN  IF rest # <<>> /\ Head(rest) = "//" THEN UpToDelimiter(Tail(rest)) ELSE <<>>

\* the positions of the columns labelled name
ColumnsNamed(df, name) == {j \in 1..Len(df.columns) : StrOf(df.columns[j]) = name}

\* apply_domain(row), for a row of a frame that has the column: a label that
\* several columns carry selects a Series, which is not a str
apply_domain(df, row) ==
    LET at == ColumnsNamed(df, "event_properties_url")
        j  == CHOOSE c \in at : TRUE
    IN  IF Cardinality(at) = 1 /\ row.vals[j].t = "str"
           THEN StrV(<<StrOf(netloc(row.vals[j].s))>>)
           ELSE None

\* row['event_properties_url'] raises KeyError in a frame without the column
raises_KeyError(df) == ColumnsNamed(df, "event_properties_url") = {}

\* df['domain'] = df.apply(apply_domain, axis=1): a new last column, or new
\* values for the column that already carries the label
create_domain(df) ==
    LET at == ColumnsNamed(df, "domain")
    IN  IF at = {}
           THEN [columns |-> Append(df.columns, <<"domain">>),
                 rows    |-> [i \in 1..Len(df.rows) |->
                                [ix   |-> df.rows[i].ix,
                                 vals |-> Append(df.rows[i].vals,
                                                 apply_domain(df, df.rows[i]))]]]
           ELSE [columns |-> df.columns,
                 rows    |-> [i \in 1..Len(df.rows) |->
                                [ix   |-> df.rows[i].ix,
                                 vals |-> [j \in 1..Len(df.columns) |->
                                             IF j \in at
                                                THEN apply_domain(df, df.rows[i])
                                                ELSE df.rows[i].vals[j]]]]]

\* the domain cell of a row of a frame that carries the column
DomainOf(df, row) == row.vals[CHOOSE j \in ColumnsNamed(df, "domain") : TRUE]

\* df[df['domain'].isin(domains)]
isin_filter(df, domains) ==
    LET Member(row) == /\ DomainOf(df, row).t = "str"
                       /\ StrOf(DomainOf(df, row).s) \in domains
    IN  [columns |-> df.columns, rows |-> SelectSeq(df.rows, Member)]

\* separate_environments with the staging list used for the beta frame too
separate_environments_swapped(cleaned) ==
    LET df == create_domain(cleaned)
    IN  [staging    |-> isin_filter(df, STAGING_DOMAINS),
         beta       |-> isin_filter(df, STAGING_DOMAINS),
         production |-> isin_filter(df, PRODUCTION_DOMAINS)]

separate_environments(cleaned) ==
    LET df == create_domain(cleaned)
    IN  [staging    |-> isin_filter(df, STAGING_DOMAINS),
         beta       |-> isin_filter(df, BETA_DOMAINS),
         production |-> isin_filter(df, PRODUCTION_DOMAINS)]

(***************************************************************************)
(* upload_to_mongo.  The store holds, per collection, the documents, and   *)
(* whether the unique index on insert_id exists; next is the ObjectId the  *)
(* driver gives the next inserted document.  What the environment decides  *)
(* for one call: conn, whether the server can be reached, and reject, the  *)
(* position in the batch of a record the server turns down for a reason    *)
(* other than a duplicate key (0: none).                                   *)
(***************************************************************************)
Buckets == {"staging", "production", "beta"}

\* json.loads(df.T.to_json()).values(): one dict per row, NaN written as null
to_records(df) ==
    [i \in 1..Len(df.rows) |->
        [j \in 1..Len(df.columns) |->
            [k |-> df.columns[j],
             v |-> IF df.rows[i].vals[j].t = "nan" THEN None ELSE df.rows[i].vals[j]]]]

\* to_json refuses a transposed frame whose index (the column labels) repeats
unique_labels(df) ==
    \A i, j \in 1..Len(df.columns) : SameName(df.columns[i], df.columns[j]) => i = j

\* the value the index on insert_id files a document under: null when the
\* field is missing
IndexKey(rec) ==
    IF HasKey(rec, <<"insert_id">>) THEN Lookup(rec, <<"insert_id">>) ELSE None

\* insert_many on a collection whose index does not enforce uniqueness
RECURSIVE insert_many_unchecked(_, _, _, _, _)
insert_many_unchecked(docs, next, records, at, reject) ==
    IF at > Len(records) THEN [docs |-> docs, next |-> next, code |-> 0]
    ELSE IF at = reject THEN [docs |-> docs, next |-> next, code |-> 121]
    ELSE insert_many_unchecked(docs \cup {[oid |-> next, key |-> IndexKey(records[at]),
                                           rec |-> records[at]]},
                               next + 1, records, at + 1, reject)

\* collection.insert_many(records), ordered: the documents go in one by one
\* and the first write error ends the batch
RECURSIVE insert_many(_, _, _, _, _)
insert_many(docs, next, records, at, reject) ==
    IF at > Len(records) THEN [docs |-> docs, next |-> next, code |-> 0]
    ELSE IF at = reject THEN [docs |-> docs, next |-> next, code |-> 121]
    ELSE IF \E d \in docs : d.key = IndexKey(records[at])
            THEN [docs |-> docs, next |-> next, code |-> 11000]
    ELSE insert_many(docs \cup {[oid |-> next, key |-> IndexKey(records[at]),
                                 rec |-> records[at]]},
                     next + 1, records, at + 1, reject)

\* the call's effect: the store, the logging.error calls, the value returned
\* (0 for None) and what happened
upload_to_mongo(st, df, collection_name, conn, reject) ==
    IF ~conn
       THEN [store |-> st, errors |-> <<"traceback">>, ret |-> 500,
             outcome |-> "ConnectionFailure"]
    ELSE IF ~unique_labels(df)
       THEN [store |-> st, errors |-> <<"traceback">>, ret |-> 500,
             outcome |-> "ValueError"]
    ELSE LET records == to_records(df)
             indexed == [st EXCEPT !.idx[collection_name] = TRUE]
             w       == insert_many(st.coll[collection_name], st.next, records, 1, reject)
             written == [indexed EXCEPT !.coll[collection_name] = w.docs,
                                        !.next = w.next]
         IN  IF records = <<>>
                THEN [store |-> indexed, errors |-> <<"traceback">>, ret |-> 500,
                      outcome |-> "TypeError"]
             ELSE IF w.code = 0
                THEN [store |-> written, errors |-> <<>>, ret |-> 0, outcome |-> "ok"]
             ELSE IF w.code = 11000
                THEN [store |-> written, errors |-> <<>>, ret |-> 0,
                      outcome |-> "DuplicateKey"]
             ELSE [store |-> written, errors |-> <<"errmsg">>, ret |-> 0,
                   outcome |-> "WriteFailure"]

(***************************************************************************)
(* Inputs.                                                                 *)
(***************************************************************************)
NoFrame == [columns |-> <<>>, rows |-> <<>>]
NoEnvs  == [staging |-> NoFrame, beta |-> NoFrame, production |-> NoFrame]

EmptyStore == [coll |-> [b \in Buckets |-> {}], idx |-> [b \in Buckets |-> FALSE],
               next |-> 1]

InsertIds == <<"i1", "i2">>

\* a document an earlier run left in a collection
PriorDoc(n) ==
    [oid |-> 0 - n, key |-> StrV(<<InsertIds[n]>>),
     rec |-> <<[k |-> <<"insert_id">>, v |-> StrV(<<InsertIds[n]>>)]>>]

\* the store with the given documents in the given collections; a collection
\* that holds documents has its index, which upload_to_mongo creates first
StoreWith(holders, ns) ==
    [coll |-> [b \in Buckets |-> IF b \in holders THEN {PriorDoc(n) : n \in ns} ELSE {}],
     idx  |-> [b \in Buckets |-> b \in holders /\ ns # {}],
     next |-> 1]

\* one raw event as Amplitude exports it
Event(id, url) ==
    <<Leaf(<<"$", "insert_id">>, StrV(<<id>>)),
      Leaf(<<"event_type">>, StrV(<<"click">>)),
      Leaf(<<"app">>, NumV("7"))>>
    \o (IF url = NaN THEN <<>>
        ELSE <<Dict(<<"event_properties">>, <<Leaf(<<"url">>, url)>>)>>)

\* values of event_properties.url; NaN stands for a record without the field
UrlValues ==
    {StrV(<<"https:", "//", "studio.masterwizr.com", "/", "x">>),
     StrV(<<"https:", "//", "master.mwstream.com">>),
     StrV(<<"http:", "//", "beta-studio.mwstream.com", "?", "x">>),
     StrV(<<"https:", "//", "example.com", "/", "x">>),
     NumV("123"),
     NaN}

\* every source holds one line, so MaxSources bounds the batch as well
SourceFrames == {<<Event(InsertIds[n], u)>> : n \in 1..2, u \in UrlValues}

Alphabet == {"A", "pp", "device", "type", "$", "."}

Names(n) == UNION {[1..m -> Alphabet] : m \in 0..n}

\* raw records with one key path, one or two levels deep
CleanRecords ==
    {<<Leaf(k, NumV("1"))>> : k \in Names(MaxKeyLen)}
    \cup {<<Dict(k[1], <<Leaf(k[2], NumV("1"))>>)>> :
             k \in {p \in Names(MaxKeyLen - 1) \X Names(MaxKeyLen - 1) :
                       /\ p[1] # <<>> /\ p[2] # <<>>
                       /\ Len(p[1]) + Len(p[2]) <= MaxKeyLen}}

CleanBatches ==
    {<<r>> : r \in CleanRecords}
    \cup {<<r, Event("i1", StrV(<<"https:", "//", "example.com">>))>> : r \in CleanRecords}

\* a record with or without an insert_id
LoadRecord(n) ==
    (IF n = 0 THEN <<>> ELSE <<Leaf(<<"$", "insert_id">>, StrV(<<InsertIds[n]>>))>>)
    \o <<Leaf(<<"event_type">>, StrV(<<"click">>))>>

LoadBatches == UNION {[1..m -> {LoadRecord(n) : n \in 0..2}] : m \in 0..MaxBatch}

(***************************************************************************)
(* The run of download_to_mongo.                                           *)
(***************************************************************************)
Init ==
    /\ pc = "list"
    /\ nobjs = 0
    /\ dfs = <<>>
    /\ data_dict = <<>>
    /\ cleaned_data_df = NoFrame
    /\ envs = NoEnvs
    /\ store \in {StoreWith(h, {1}) : h \in {{}, {"staging", "production"}}}
    /\ store0 = store
    /\ calls = <<>>
    /\ errors = <<>>
    /\ result = 0
    /\ fault = "none"
    /\ target = "staging"
    /\ after1 = {}

\* the except branch of download_to_mongo
Except(e) ==
    /\ fault' = e
    /\ errors' = errors \o <<"lambda", "traceback">>
    /\ result' = 500
    /\ pc' = "done"

\* client.list_objects(...) and json_files['Contents']
ListObjects ==
    /\ pc = "list"
    /\ \E n \in 1..MaxSources : nobjs' = n
    /\ pc' = "read"
    /\ UNCHANGED <<dfs, data_dict, cleaned_data_df, envs, store, calls, errors, result,
                   fault, target, store0, after1>>

\* the listing fails, or holds no 'Contents' because no object has the prefix
ListFails ==
    /\ pc = "list"
    /\ \E e \in {"ListError", "NoContents"} : Except(e)
    /\ UNCHANGED <<nobjs, dfs, data_dict, cleaned_data_df, envs, store, calls, target,
                   store0, after1>>

\* one turn of the loop: get_object, read_json, dfs.append
ReadSource ==
    /\ pc = "read"
    /\ Len(dfs) < nobjs
    /\ \E f \in SourceFrames : dfs' = Append(dfs, f)
    /\ UNCHANGED <<pc, nobjs, data_dict, cleaned_data_df, envs, store, calls, errors,
                   result, fault, target, store0, after1>>

\* pd.concat(dfs, ignore_index=True): the frames end to end
RECURSIVE concat(_)
concat(frames) == IF frames = <<>> THEN <<>> ELSE Head(frames) \o concat(Tail(frames))

\* json.loads(temp.T.to_json()).values(): the merged frame has one column per
\* top-level key of any record, so every record comes back with every such
\* key, null where it had none
to_dicts(temp) ==
    LET keys == AllKeys(<<>>, temp)
    IN  [i \in 1..Len(temp) |->
           [j \in 1..Len(keys) |->
               IF HasKey(temp[i], keys[j])
                  THEN temp[i][CHOOSE m \in 1..Len(temp[i]) :
                                  SameName(temp[i][m].k, keys[j])]
                  ELSE Leaf(keys[j], None)]]

\* ReadFails with the failure logged and the sources read so far processed
ReadFails_partial ==
    /\ pc = "read"
    /\ Len(dfs) < nobjs
    /\ fault' = "ReadError"
    /\ errors' = errors \o <<"lambda", "traceback">>
    /\ dfs # <<>>
    /\ data_dict' = to_dicts(concat(dfs))
    /\ pc' = "clean"
    /\ UNCHANGED <<nobjs, dfs, cleaned_data_df, envs, store, calls, result, target,
                   store0, after1>>

\* get_object or read_json raises on the source the loop is at
ReadFails ==
    /\ pc = "read"
    /\ Len(dfs) < nobjs
    /\ Except("ReadError")
    /\ UNCHANGED <<nobjs, dfs, data_dict, cleaned_data_df, envs, store, calls, target,
                   store0, after1>>

\* pd.concat(dfs, ignore_index=True) and json.loads(temp.T.to_json()).values()
Concat ==
    /\ pc = "read"
    /\ Len(dfs) = nobjs
    /\ data_dict' = to_dicts(concat(dfs))
    /\ pc' = "clean"
    /\ UNCHANGED <<nobjs, dfs, cleaned_data_df, envs, store, calls, errors, result,
                   fault, target, store0, after1>>

CleanData ==
    /\ pc = "clean"
    /\ cleaned_data_df' = clean_data(data_dict)
    /\ pc' = "separate"
    /\ UNCHANGED <<nobjs, dfs, data_dict, envs, store, calls, errors, result, fault,
                   target, store0, after1>>

\* separate_environments returns; create_domain has written the domain column
\* into the frame clean_data returned
SeparateEnvironments ==
    /\ pc = "separate"
    /\ ~raises_KeyError(cleaned_data_df)
    /\ cleaned_data_df' = create_domain(cleaned_data_df)
    /\ envs' = separate_environments(cleaned_data_df)
    /\ pc' = "upload"
    /\ UNCHANGED <<nobjs, dfs, data_dict, store, calls, errors, result, fault, target,
                   store0, after1>>

\* apply_domain raises KeyError, which download_to_mongo catches
SeparateFails ==
    /\ pc = "separate"
    /\ raises_KeyError(cleaned_data_df)
    /\ Except("KeyError")
    /\ UNCHANGED <<nobjs, dfs, data_dict, cleaned_data_df, envs, store, calls, target,
                   store0, after1>>

\* the order of the three calls in process_and_upload_data
UploadOrder == <<"staging", "production", "beta">>

\* what one upload_to_mongo call leaves behind
Called(b, r) == [bucket |-> b, outcome |-> r.outcome, ret |-> r.ret, errs |-> r.errors]

\* process_and_upload_data giving up after a call that met a write failure
AfterCall_abort(r) == IF r.outcome = "WriteFailure" THEN "done" ELSE "upload"

\* where process_and_upload_data goes after a call: its value is not looked at
AfterCall(r) == "upload"

\* the next upload_to_mongo call of process_and_upload_data
Upload ==
    /\ pc = "upload"
    /\ Len(calls) < Len(UploadOrder)
    /\ LET b == UploadOrder[Len(calls) + 1]
       IN  \E conn \in BOOLEAN, reject \in 0..Len(envs[b].rows) :
              /\ conn \/ reject = 0
              /\ LET r == upload_to_mongo(store, envs[b], b, conn, reject)
                 IN  /\ store' = r.store
                     /\ calls' = Append(calls, Called(b, r))
                     /\ errors' = errors \o r.errors
                     /\ pc' = AfterCall(r)
    /\ UNCHANGED <<nobjs, dfs, data_dict, cleaned_data_df, envs, result, fault, target,
                   store0, after1>>

\* process_and_upload_data returns and download_to_mongo reports success
Return ==
    /\ pc = "upload"
    /\ Len(calls) = Len(UploadOrder)
    /\ result' = 200
    /\ pc' = "done"
    /\ UNCHANGED <<nobjs, dfs, data_dict, cleaned_data_df, envs, store, calls, errors,
                   fault, target, store0, after1>>

Next ==
    \/ ListObjects
    \/ ListFails
    \/ ReadSource
    \/ ReadFails
    \/ Concat
    \/ CleanData
    \/ SeparateEnvironments
    \/ SeparateFails
    \/ Upload
    \/ Return

Spec == Init /\ [][Next]_vars

(***************************************************************************)
(* clean_data on its own, over generated raw batches.                      *)
(***************************************************************************)
InitClean ==
    /\ pc = "clean"
    /\ nobjs = 0
    /\ dfs = <<>>
    /\ data_dict \in CleanBatches
    /\ cleaned_data_df = NoFrame
    /\ envs = NoEnvs
    /\ store = EmptyStore
    /\ store0 = store
    /\ calls = <<>>
    /\ errors = <<>>
    /\ result = 0
    /\ fault = "none"
    /\ target = "staging"
    /\ after1 = {}

NextClean == CleanData

SpecClean == InitClean /\ [][NextClean]_vars

(***************************************************************************)
(* upload_to_mongo on its own: repeated calls with one frame on one bucket.*)
(***************************************************************************)
InitLoad ==
    /\ pc = "load"
    /\ nobjs = 0
    /\ dfs = <<>>
    /\ data_dict \in LoadBatches
    /\ cleaned_data_df = clean_data(data_dict)
    /\ envs = NoEnvs
    /\ target \in Buckets
    /\ store \in {StoreWith({target}, ns) : ns \in SUBSET {1, 2}}
    /\ store0 = store
    /\ calls = <<>>
    /\ errors = <<>>
    /\ result = 0
    /\ fault = "none"
    /\ after1 = {}

LoaderRun ==
    /\ pc = "load"
    /\ Len(calls) < MaxRuns
    /\ \E conn \in BOOLEAN, reject \in 0..Len(cleaned_data_df.rows) :
          /\ conn \/ reject = 0
          /\ LET r == upload_to_mongo(store, cleaned_data_df, target, conn, reject)
             IN  /\ store' = r.store
                 /\ calls' = Append(calls, Called(target, r))
                 /\ errors' = errors \o r.errors
                 /\ after1' = IF calls = <<>> THEN r.store.coll[target] ELSE after1
    /\ UNCHANGED <<pc, nobjs, dfs, data_dict, cleaned_data_df, envs, result, fault,
                   target, store0>>

NextLoad == LoaderRun

SpecLoad == InitLoad /\ [][NextLoad]_vars

(***************************************************************************)
(* Properties.                                                             *)
(***************************************************************************)
\* the frames of separate_environments exist
Separated == pc = "upload" \/ (pc = "done" /\ fault = "none")

DomainList(b) ==
    CASE b = "staging" -> STAGING_DOMAINS
      [] b = "beta" -> BETA_DOMAINS
      [] b = "production" -> PRODUCTION_DOMAINS

\* the index labels of a frame's rows
Labels(df) == {df.rows[i].ix : i \in 1..Len(df.rows)}

\* a collection's documents without their ObjectIds
Contents(docs) == {[key |-> d.key, rec |-> d.rec] : d \in docs}

Keys(docs) == {d.key : d \in docs}

\* the value a raw record carries under event_properties.url (NaN: none)
UrlField(rec) == Lookup(nested_to_record(rec, <<>>), <<"event_properties_url">>)

LastCall == calls[Len(calls)]

\* C1: once a loader call has gone through with no failure of the store, every
\* further call with the same frame on the same bucket leaves the collection
\* as the first call left it, never inserts, and a call that ends on a
\* duplicate insert_id logs no error and returns None.
C1_Idempotent ==
    (Len(calls) >= 2 /\ calls[1].outcome \in {"ok", "DuplicateKey", "TypeError"}) =>
        /\ store.coll[target] = after1
        /\ \A n \in 2..Len(calls) :
              /\ calls[n].outcome # "ok"
              /\ calls[n].outcome = "DuplicateKey" =>
                    calls[n].errs = <<>> /\ calls[n].ret = 0

C1_Witness ==
    /\ Len(calls) = 2
    /\ calls[1].outcome = "ok"
    /\ calls[2].outcome = "DuplicateKey"
    /\ Cardinality(after1) >= 2
    /\ store0.coll[target] # {}

\* C2: after a loader call in which nothing but duplicate insert_id conflicts
\* was rejected, the collection holds a document for every insert_id of the
\* frame.
C2_EveryRecordLoaded ==
    (calls # <<>> /\ LastCall.outcome \in {"ok", "DuplicateKey"}) =>
        \A i \in 1..Len(cleaned_data_df.rows) :
            IndexKey(to_records(cleaned_data_df)[i]) \in Keys(store.coll[target])

\* C6: no column label of the frame clean_data returns is in cols_to_drop.
C6_ExclusionInvariant ==
    pc = "separate" =>
        \A j \in 1..Len(cleaned_data_df.columns) :
            StrOf(cleaned_data_df.columns[j]) \notin cols_to_drop

\* C7: every column label of the frame clean_data returns has no uppercase
\* letter, no period, and does not start with "$".
C7_ColumnInvariant ==
    pc = "separate" =>
        \A j \in 1..Len(cleaned_data_df.columns) :
            LET name == cleaned_data_df.columns[j]
            IN  /\ \A i \in 1..Len(name) : ~IsUpper(name[i]) /\ name[i] # "."
                /\ name # <<>> => name[1] # "$"

C7_Witness ==
    /\ pc = "separate"
    /\ Len(data_dict) = 2
    /\ data_dict[1][1].k = <<"$", ".", "A">>
    /\ StrOf(cleaned_data_df.columns[1]) = "__a"
    /\ \E j \in 1..Len(cleaned_data_df.columns) :
          StrOf(cleaned_data_df.columns[j]) = "insert_id"

\* C3: once a call of upload_to_mongo has failed to connect, the failure is
\* logged and no later bucket is loaded.
C3_ConnectionFailureAbortsAll ==
    \A n \in 1..Len(calls) :
        calls[n].outcome = "ConnectionFailure" =>
            calls[n].errs # <<>> /\ Len(calls) = n

\* C4: a write failure other than a duplicate key is logged by the call it
\* happens in; the run still calls upload_to_mongo for all three buckets; and
\* what a bucket whose own load met no failure holds is what loading its
\* frame alone into its initial collection gives, whatever happened to the
\* others.
C4_BucketsIndependent ==
    /\ \A n \in 1..Len(calls) :
          calls[n].outcome = "WriteFailure" => calls[n].errs = <<"errmsg">>
    /\ (pc = "done" /\ fault = "none") =>
          /\ Len(calls) = 3
          /\ {calls[n].bucket : n \in 1..Len(calls)} = Buckets
          /\ result = 200
    /\ \A n \in 1..Len(calls) :
          LET b == calls[n].bucket
          IN  calls[n].outcome \in {"ok", "DuplicateKey"} =>
                 Contents(store.coll[b]) =
                    Contents(insert_many(store0.coll[b], 1, to_records(envs[b]), 1, 0).docs)

C4_Witness ==
    /\ pc = "done"
    /\ Len(calls) = 3
    /\ calls[1].outcome = "WriteFailure"
    /\ calls[2].outcome = "ok"
    /\ calls[3].outcome = "TypeError"
    /\ store.coll["staging"] = {}
    /\ store.coll["production"] # {}

\* C5: a run whose listing or reading of a source failed has called
\* upload_to_mongo for no bucket and left the store as it found it; the store
\* is written only once every listed source has been read and merged.
C5_NoPartialCommit ==
    /\ fault \in {"ListError", "NoContents", "ReadError"} =>
          calls = <<>> /\ store = store0
    /\ (calls # <<>> \/ store # store0) =>
          /\ nobjs >= 1
          /\ Len(dfs) = nobjs
          /\ data_dict = to_dicts(concat(dfs))

C5_Witness ==
    /\ fault = "ReadError"
    /\ nobjs = 2
    /\ Len(dfs) = 1
    /\ pc = "done"
    /\ result = 500

\* C8: classification raises no fault, and a record whose URL field is absent
\* or not a string gets a null domain and is in none of the three frames.
C8_NullDomainHandling ==
    /\ fault # "KeyError"
    /\ Separated =>
          \A i \in 1..Len(data_dict) :
              UrlField(data_dict[i]).t # "str" =>
                  /\ DomainOf(cleaned_data_df, cleaned_data_df.rows[i]) = None
                  /\ \A b \in Buckets : (i - 1) \notin Labels(envs[b])

\* C9: the run returns 500 when the source read failed or a bucket's load
\* met a connection failure or a write failure other than a duplicate key,
\* and 200 when no stage failed; duplicate keys alone give 200.
C9_ResultReflectsOutcome ==
    result # 0 =>
        LET failed == \/ fault # "none"
                      \/ \E n \in 1..Len(calls) :
                            calls[n].outcome \in {"ConnectionFailure", "WriteFailure"}
        IN  /\ failed => result = 500
            /\ ~failed => result = 200

====
